---- MODULE Spec2Model ----
(***************************************************************************)
(* Model of src/dataset.py, the Streamlit "Contagious Diseases Analysis    *)
(* Tool".  The script is re-executed from top to bottom on every user      *)
(* interaction; one action of this model is one interaction followed by    *)
(* the complete re-execution of the script.  What survives from one        *)
(* execution to the next is the widget state kept by Streamlit (and the    *)
(* files); every Python name of the script (df, file_path, ...) is bound   *)
(* afresh by each execution.                                               *)
(*                                                                         *)
(* Values.  A CSV cell is a record [k, v]: k is the kind of text in the    *)
(* cell ("num" an integer literal, "str" any other text, "bool" True or    *)
(* False, "date" a date string, "na" an empty cell) and v an integer       *)
(* payload.  Real numbers computed by pandas are kept exact as rationals   *)
(* [nan, num, den].  pandas is modelled with its classic (1.x/2.x)         *)
(* inference rules: text columns get dtype object.                         *)
(***************************************************************************)
EXTENDS Integers, Sequences, FiniteSets, TLC

\* Longest generated column (rows of the uploaded candidate file).
MaxRows == 4

NA == [k |-> "na", v |-> 0]
Num(n) == [k |-> "num", v |-> n]
Str(n) == [k |-> "str", v |-> n]
Bool(n) == [k |-> "bool", v |-> n]
Date(n) == [k |-> "date", v |-> n]

Range(s) == {s[i] : i \in 1..Len(s)}

\* Python's None where a column label is expected (selectbox over no options).
NoneLabel == "None"

(***************************************************************************)
(* Files.  A file is [id, ok, cols]: ok = FALSE is a file pd.read_csv      *)
(* cannot parse (an empty file: EmptyDataError); cols are the raw columns  *)
(* [name, cells] under the header row.                                     *)
(***************************************************************************)
RawCol(name, cells) == [name |-> name, cells |-> cells]

CasesFile ==
    [id |-> "cases.csv", ok |-> TRUE,
     cols |-> << RawCol("cases", <<Num(1), Num(2), Num(3), Num(4), Num(100)>>) >>]

RegionFile ==
    [id |-> "region.csv", ok |-> TRUE,
     cols |-> << RawCol("region", <<Str(1), Str(1), Str(2), Str(3), Str(1)>>) >>]

MeaslesFile ==
    [id |-> "measles.csv", ok |-> TRUE,
     cols |-> << RawCol("week", <<Date(1), Date(2), Date(3), Date(4), Date(5)>>),
                 RawCol("state", <<Str(1), Str(2), Str(2), Str(1), Str(2)>>),
                 RawCol("cases", <<Num(1), Num(2), Num(3), Num(4), Num(7)>>),
                 RawCol("deaths", <<Num(0), NA, Num(0), Num(0), Num(5)>>),
                 RawCol("epidemic", <<Bool(0), Bool(0), Bool(0), Bool(0), Bool(1)>>) >>]

HeaderOnlyFile ==
    [id |-> "polio.csv", ok |-> TRUE, cols |-> << RawCol("cases", <<>>) >>]

EmptyFile == [id |-> "empty.csv", ok |-> FALSE, cols |-> <<>>]

BlankColumnFile ==
    [id |-> "blank.csv", ok |-> TRUE,
     cols |-> << RawCol("cases", <<NA, NA, NA>>), RawCol("rate", <<Num(1), Num(2), Num(3)>>) >>]

\* os.listdir(DATA_DIR) filtered on ".csv", when the directory exists.
LocalCatalog == << CasesFile, RegionFile, MeaslesFile, HeaderOnlyFile >>

\* Files the user may have at hand to upload while the directory exists.
UploadCatalog == { EmptyFile, BlankColumnFile }

\* Cells of a generated upload.
CellSet == { Num(1), Num(9), NA, Str(1), Bool(1), Date(1) }

SeqsUpTo(S, n) == UNION { [1..m -> S] : m \in 0..n }

\* Generated uploads: one column "x", up to MaxRows rows, any mix of cells.
GenFiles ==
    { [id |-> "upload.csv", ok |-> TRUE, cols |-> << RawCol("x", cells) >>] :
        cells \in SeqsUpTo(CellSet, MaxRows) }

(***************************************************************************)
(* pd.read_csv: dtype inference per column.                                *)
(***************************************************************************)
infer_dtype(cells) ==
    IF Len(cells) = 0 THEN "object"
    ELSE IF \A i \in 1..Len(cells) : cells[i].k \in {"num", "na"}
         THEN IF \A i \in 1..Len(cells) : cells[i].k = "num" THEN "int64" ELSE "float64"
    ELSE IF \A i \in 1..Len(cells) : cells[i].k = "bool" THEN "bool"
    ELSE "object"

NoDf == [bound |-> FALSE, nrows |-> 0, columns |-> <<>>]

read_csv(file) ==
    [bound |-> TRUE,
     nrows |-> IF Len(file.cols) = 0 THEN 0 ELSE Len(file.cols[1].cells),
     columns |-> [i \in 1..Len(file.cols) |->
                    [name |-> file.cols[i].name,
                     dtype |-> infer_dtype(file.cols[i].cells),
                     vals |-> file.cols[i].cells]]]

\* load_data: the st.cache_data memo is keyed on the argument and the files do
\* not change during a session, so a memoised result equals a fresh read.
load_data(file) == read_csv(file)

load_raises(file) == ~file.ok

(***************************************************************************)
(* pandas helpers used by the script.                                      *)
(***************************************************************************)
NumberDtypes == {"int64", "float64"}
ObjectDtypes == {"object"}
DatetimeDtypes == {"datetime64[ns]"}

\* df.select_dtypes(include=...).columns: the labels, in column order.
select_dtypes(d, include) ==
    LET RECURSIVE pick(_)
        pick(i) == IF i > Len(d.columns) THEN <<>>
                   ELSE IF d.columns[i].dtype \in include
                        THEN <<d.columns[i].name>> \o pick(i + 1)
                        ELSE pick(i + 1)
    IN pick(1)

\* df.columns
column_labels(d) == [i \in 1..Len(d.columns) |-> d.columns[i].name]

\* pd.api.types.is_numeric_dtype: bool counts as numeric here.
is_numeric_dtype(dtype) == dtype \in NumberDtypes \cup {"bool"}

has_column(d, label) == \E i \in 1..Len(d.columns) : d.columns[i].name = label

\* df[label]; only used where has_column holds (otherwise KeyError).
column(d, label) == d.columns[CHOOSE i \in 1..Len(d.columns) : d.columns[i].name = label]

notna(vals) == SelectSeq(vals, LAMBDA c : c.k # "na")

\* The numbers held by a numeric Series, missing values skipped (skipna).
numbers(vals) == LET nn == notna(vals) IN [i \in 1..Len(nn) |-> nn[i].v]

RECURSIVE insert_asc(_, _)
insert_asc(s, x) ==
    IF Len(s) = 0 THEN <<x>>
    ELSE IF x < s[1] THEN <<x>> \o s
    ELSE <<s[1]>> \o insert_asc(Tail(s), x)

RECURSIVE sort_values(_)
sort_values(s) ==
    IF Len(s) = 0 THEN <<>>
    ELSE insert_asc(sort_values(SubSeq(s, 1, Len(s) - 1)), s[Len(s)])

RECURSIVE sum(_)
sum(s) == IF Len(s) = 0 THEN 0 ELSE s[1] + sum(Tail(s))

squares(s) == [i \in 1..Len(s) |-> s[i] * s[i]]

NaN == [nan |-> TRUE, num |-> 0, den |-> 1]
Rat(n, d) == [nan |-> FALSE, num |-> n, den |-> d]

\* Series.mean()
mean(vals) ==
    LET xs == numbers(vals)
    IN IF Len(xs) = 0 THEN NaN ELSE Rat(sum(xs), Len(xs))

\* Series.median()
median(vals) ==
    LET xs == sort_values(numbers(vals))
        n == Len(xs)
    IN IF n = 0 THEN NaN
       ELSE IF n % 2 = 1 THEN Rat(xs[(n + 1) \div 2], 1)
       ELSE Rat(xs[n \div 2] + xs[n \div 2 + 1], 2)

\* Series.var(), ddof = 1.  Series.std() is its square root: NaN exactly when
\* the variance is.
var(vals) ==
    LET xs == numbers(vals)
        n == Len(xs)
    IN IF n < 2 THEN NaN
       ELSE Rat(n * sum(squares(xs)) - sum(xs) * sum(xs), n * (n - 1))

\* Series.skew() needs 3 observations, Series.kurtosis() 4; only whether the
\* result is NaN is kept.
skew_is_nan(vals) == Len(numbers(vals)) < 3
kurtosis_is_nan(vals) == Len(numbers(vals)) < 4

\* Series.quantile(k/4), interpolation "linear": position h = (n-1)*k/4 in the
\* sorted non-missing values, interpolated between its two neighbours.
quantile(vals, k) ==
    LET xs == sort_values(numbers(vals))
        n == Len(xs)
        h == k * (n - 1)
        lo == h \div 4 + 1
        rem == h % 4
    IN IF n = 0 THEN NaN
       ELSE IF rem = 0 THEN Rat(4 * xs[lo], 4)
       ELSE Rat(4 * xs[lo] + rem * (xs[lo + 1] - xs[lo]), 4)

\* Series.value_counts(): missing values dropped, one entry per distinct value
\* in order of first occurrence, then a stable sort by descending count.
RECURSIVE distinct_values(_)
distinct_values(vals) ==
    IF Len(vals) = 0 THEN <<>>
    ELSE LET front == distinct_values(SubSeq(vals, 1, Len(vals) - 1))
             last == vals[Len(vals)]
         IN IF last \in Range(front) THEN front ELSE Append(front, last)

occurrences(vals, v) == Cardinality({i \in 1..Len(vals) : vals[i] = v})

RECURSIVE insert_desc(_, _)
insert_desc(s, e) ==
    IF Len(s) = 0 THEN <<e>>
    ELSE IF e.count > s[1].count THEN <<e>> \o s
    ELSE <<s[1]>> \o insert_desc(Tail(s), e)

RECURSIVE sort_by_count(_)
sort_by_count(s) ==
    IF Len(s) = 0 THEN <<>>
    ELSE insert_desc(sort_by_count(SubSeq(s, 1, Len(s) - 1)), s[Len(s)])

\* Mutant of value_counts: missing values are counted too (dropna=False).
value_counts_keeps_missing(vals) ==
    LET ds == distinct_values(vals)
    IN sort_by_count([i \in 1..Len(ds) |->
                        [value |-> ds[i], count |-> occurrences(vals, ds[i])]])

value_counts(vals) ==
    LET present == notna(vals)
        ds == distinct_values(present)
    IN sort_by_count([i \in 1..Len(ds) |->
                        [value |-> ds[i], count |-> occurrences(present, ds[i])]])

(***************************************************************************)
(* Streamlit widgets.  A widget keeps the user's choice from one execution *)
(* to the next only while it is rendered with the same label and options   *)
(* (its identity); a widget an execution does not render loses its state.  *)
(* A selectbox over no options returns None.                               *)
(***************************************************************************)
WidgetKeys == {"local", "graph", "category", "metric", "x", "y", "analysis",
               "date", "ts_metric", "freq"}

Hidden == [shown |-> FALSE, opts |-> <<>>, val |-> NoneLabel]

Shown(options, val) == [shown |-> TRUE, opts |-> options, val |-> val]

NoWidgets == [k \in WidgetKeys |-> Hidden]

\* Mutant of selectbox: the stored choice is returned although the options
\* have changed.
selectbox_keeps_choice(w, options) ==
    IF Len(options) = 0 THEN NoneLabel
    ELSE IF w.shown THEN w.val
    ELSE options[1]

\* st.selectbox(label, options): the value it returns in this execution.
selectbox(w, options) ==
    IF Len(options) = 0 THEN NoneLabel
    ELSE IF w.shown /\ w.opts = options /\ w.val \in Range(options) THEN w.val
    ELSE options[1]

\* The widget's state after being rendered over these options.
render_selectbox(w, options) == Shown(options, selectbox(w, options))

(***************************************************************************)
(* Outputs of one execution.                                               *)
(***************************************************************************)
Msg(level, text) == [level |-> level, text |-> text]

NoChart == [shown |-> FALSE, kind |-> "", cols |-> <<>>, freq |-> <<>>]
Chart(kind, cols, freq) == [shown |-> TRUE, kind |-> kind, cols |-> cols, freq |-> freq]

Call(fn, cols) == [fn |-> fn, cols |-> cols]

NoSummary ==
    [shown |-> FALSE, col |-> NoneLabel, mean |-> NaN, median |-> NaN, variance |-> NaN,
     std_nan |-> TRUE, skew_nan |-> TRUE, kurtosis_nan |-> TRUE]

NoOutliers ==
    [shown |-> FALSE, col |-> NoneLabel, q1 |-> NaN, q3 |-> NaN, iqr |-> NaN,
     lower |-> NaN, upper |-> NaN, count |-> 0, fraction |-> NaN]

NoFrequency == [shown |-> FALSE, col |-> NoneLabel, table |-> <<>>, pie |-> FALSE]

NoResample ==
    [shown |-> FALSE, date_col |-> NoneLabel, metric_col |-> NoneLabel, freq |-> NoneLabel,
     rows |-> 0]

\* graph_types, in dict order.
GraphKinds == << "Bar Chart", "Line Chart", "Histogram", "Scatter Plot", "Box Plot",
                 "Pie Chart", "Heatmap" >>

graph_types(kind) ==
    CASE kind \in {"Bar Chart", "Pie Chart"} -> "categorical"
      [] kind \in {"Line Chart", "Histogram", "Scatter Plot", "Box Plot"} -> "numerical"
      [] OTHER -> "correlation"

Frequencies == << "D", "W", "M", "Q", "Y" >>

(***************************************************************************)
(* The plotting libraries are external.  A seaborn call on data that holds *)
(* nothing to draw (a None column, no finite value, no category) raises or *)
(* draws empty axes depending on the library version: lib.plot_raises is   *)
(* that outcome.  Axes.pie over no value draws no wedge and returns.       *)
(* lib.bool_quantile_raises is whether Series.quantile raises TypeError on *)
(* a bool Series (numpy refuses to subtract booleans) or interpolates over *)
(* 0 and 1.                                                                *)
(***************************************************************************)
LibOutcomes == [plot_raises : BOOLEAN, bool_quantile_raises : BOOLEAN]

no_data(d, label) ==
    ~has_column(d, label) \/ Len(numbers(column(d, label).vals)) = 0

(***************************************************************************)
(* create_visualization(): the column selectboxes of the chosen chart      *)
(* kind, the plotting call, and display_col.pyplot(fig) unless something   *)
(* raised (st.error) or the heatmap guard returned early (st.warning).     *)
(* The result holds the column widgets as rendered, the messages, the      *)
(* chart displayed and the library calls made.                             *)
(***************************************************************************)
VizError == Msg("error", "Visualization error")
HeatmapWarning == Msg("warning", "Need at least 2 numeric columns for heatmap")

VizResult(ws, msgs, chart, calls) ==
    [widgets |-> ws, messages |-> msgs, chart |-> chart, calls |-> calls]

\* The end of the try block after a plotting call: the call raised (caught by
\* the except clause) or the figure is displayed.
plotted(ws, raised, chart, calls) ==
    IF raised THEN VizResult(ws, <<VizError>>, NoChart, calls)
    ELSE VizResult(ws, <<>>, chart, calls)

\* Bar Chart and Pie Chart: df[col].value_counts() then the plot.
categorical_chart(d, kind, fn, w, lib) ==
    LET opts == select_dtypes(d, ObjectDtypes)
        col == selectbox(w["category"], opts)
        ws == [k \in {"category"} |-> render_selectbox(w["category"], opts)]
    IN IF ~has_column(d, col)
       THEN VizResult(ws, <<VizError>>, NoChart, <<>>)
       ELSE LET vc == value_counts(column(d, col).vals)
            IN plotted(ws, fn # "ax.pie" /\ Len(vc) = 0 /\ lib.plot_raises,
                       Chart(kind, <<col>>, vc), <<Call(fn, <<col>>)>>)

\* Histogram: df[col] is evaluated before the plotting call.
histogram_chart(d, w, lib) ==
    LET opts == select_dtypes(d, NumberDtypes)
        col == selectbox(w["metric"], opts)
        ws == [k \in {"metric"} |-> render_selectbox(w["metric"], opts)]
    IN IF ~has_column(d, col)
       THEN VizResult(ws, <<VizError>>, NoChart, <<>>)
       ELSE plotted(ws, no_data(d, col) /\ lib.plot_raises,
                    Chart("Histogram", <<col>>, <<>>), <<Call("sns.histplot", <<col>>)>>)

\* Line Chart and Box Plot: the label goes to seaborn as y=col, None included.
metric_chart(d, kind, fn, w, lib) ==
    LET opts == select_dtypes(d, NumberDtypes)
        col == selectbox(w["metric"], opts)
        ws == [k \in {"metric"} |-> render_selectbox(w["metric"], opts)]
    IN plotted(ws, no_data(d, col) /\ lib.plot_raises,
               Chart(kind, <<col>>, <<>>), <<Call(fn, <<col>>)>>)

scatter_chart(d, w, lib) ==
    LET opts == select_dtypes(d, NumberDtypes)
        x_col == selectbox(w["x"], opts)
        y_col == selectbox(w["y"], opts)
        ws == [k \in {"x", "y"} |-> render_selectbox(w[k], opts)]
    IN plotted(ws, (no_data(d, x_col) \/ no_data(d, y_col)) /\ lib.plot_raises,
               Chart("Scatter Plot", <<x_col, y_col>>, <<>>),
               <<Call("sns.scatterplot", <<x_col, y_col>>)>>)

\* Mutant of heatmap_chart: the guard lets a single numeric column through.
heatmap_chart_one_column(d) ==
    LET numeric_df == select_dtypes(d, NumberDtypes)
        ws == [k \in {} |-> Hidden]
    IN IF Len(numeric_df) < 1
       THEN VizResult(ws, <<HeatmapWarning>>, NoChart, <<>>)
       ELSE VizResult(ws, <<>>, Chart("Heatmap", numeric_df, <<>>),
                      <<Call("corr", numeric_df), Call("sns.heatmap", numeric_df)>>)

heatmap_chart(d) ==
    LET numeric_df == select_dtypes(d, NumberDtypes)
        ws == [k \in {} |-> Hidden]
    IN IF Len(numeric_df) < 2
       THEN VizResult(ws, <<HeatmapWarning>>, NoChart, <<>>)
       ELSE VizResult(ws, <<>>, Chart("Heatmap", numeric_df, <<>>),
                      <<Call("corr", numeric_df), Call("sns.heatmap", numeric_df)>>)

create_visualization(d, selected_graph, w, lib) ==
    CASE selected_graph = "Bar Chart" -> categorical_chart(d, "Bar Chart", "sns.barplot", w, lib)
      [] selected_graph = "Line Chart" -> metric_chart(d, "Line Chart", "sns.lineplot", w, lib)
      [] selected_graph = "Histogram" -> histogram_chart(d, w, lib)
      [] selected_graph = "Scatter Plot" -> scatter_chart(d, w, lib)
      [] selected_graph = "Box Plot" -> metric_chart(d, "Box Plot", "sns.boxplot", w, lib)
      [] selected_graph = "Pie Chart" -> categorical_chart(d, "Pie Chart", "ax.pie", w, lib)
      [] selected_graph = "Heatmap" -> heatmap_chart(d)

(***************************************************************************)
(* Advanced Analysis (lines 149-193).  Nothing here is inside a try block: *)
(* an exception ends the execution, Streamlit shows the traceback and the  *)
(* statements after the raising one are not run.                           *)
(***************************************************************************)
Uncaught == Msg("exception", "Uncaught exception")

\* The same rational over a denominator k times larger.
scale_both(r, k) == IF r.nan THEN NaN ELSE Rat(r.num * k, r.den * k)

\* a - b and a + b for rationals over the same denominator.
minus(a, b) == IF a.nan \/ b.nan THEN NaN ELSE Rat(a.num - b.num, a.den)
plus(a, b) == IF a.nan \/ b.nan THEN NaN ELSE Rat(a.num + b.num, a.den)

\* x < r and x > r for an integer x; a comparison with NaN is False.
below(x, r) == ~r.nan /\ x * r.den < r.num
above(x, r) == ~r.nan /\ x * r.den > r.num

\* Mutant of is_outlier: a value on a fence counts as an outlier.
is_outlier_inclusive(c, lower, upper) ==
    c.k # "na" /\ ~(above(c.v, lower) /\ below(c.v, upper))

is_outlier(c, lower, upper) ==
    c.k # "na" /\ (below(c.v, lower) \/ above(c.v, upper))

\* Lines 174-177: q1, q3, iqr, the fences (over denominator 8) and the rows
\* of df outside them.
outlier_report(d, label) ==
    LET vals == column(d, label).vals
        q1 == quantile(vals, 1)
        q3 == quantile(vals, 3)
        iqr == minus(q3, q1)
        half == IF iqr.nan THEN NaN ELSE Rat(3 * iqr.num, 2 * iqr.den)
        lower == minus(scale_both(q1, 2), half)
        upper == plus(scale_both(q3, 2), half)
        n_outliers == Cardinality({i \in 1..Len(vals) : is_outlier(vals[i], lower, upper)})
    IN [shown |-> TRUE, col |-> label, q1 |-> q1, q3 |-> q3, iqr |-> iqr,
        lower |-> lower, upper |-> upper, count |-> n_outliers,
        fraction |-> Rat(n_outliers, d.nrows)]

summarize(d, label) ==
    LET vals == column(d, label).vals
    IN [shown |-> TRUE, col |-> label, mean |-> mean(vals), median |-> median(vals),
        variance |-> var(vals), std_nan |-> var(vals).nan,
        skew_nan |-> skew_is_nan(vals), kurtosis_nan |-> kurtosis_is_nan(vals)]

AnalysisResult(w, raised, summary, outliers, frequency) ==
    [widget |-> w, raised |-> raised, summary |-> summary, outliers |-> outliers,
     frequency |-> frequency]

advanced_analysis(d, w, lib) ==
    LET opts == column_labels(d)
        analysis_col == selectbox(w, opts)
        wr == render_selectbox(w, opts)
    IN IF ~has_column(d, analysis_col)
       THEN \* df[None]: KeyError
            AnalysisResult(wr, TRUE, NoSummary, NoOutliers, NoFrequency)
       ELSE IF is_numeric_dtype(column(d, analysis_col).dtype)
       THEN LET summary == summarize(d, analysis_col)
            IN IF column(d, analysis_col).dtype = "bool" /\ lib.bool_quantile_raises
               THEN \* df[analysis_col].quantile(0.25): TypeError
                    AnalysisResult(wr, TRUE, summary, NoOutliers, NoFrequency)
               ELSE IF d.nrows = 0
               THEN \* len(outliers) / len(df): ZeroDivisionError
                    AnalysisResult(wr, TRUE, summary, NoOutliers, NoFrequency)
               ELSE AnalysisResult(wr, FALSE, summary, outlier_report(d, analysis_col),
                                   NoFrequency)
       ELSE LET vc == value_counts(column(d, analysis_col).vals)
                shown == [shown |-> TRUE, col |-> analysis_col, table |-> vc, pie |-> TRUE]
            IN AnalysisResult(wr, FALSE, NoSummary, NoOutliers, shown)

(***************************************************************************)
(* Time Series Analysis (lines 195-208), not inside a try block either.    *)
(* Only the selections and the number of source rows of the resampled      *)
(* series are kept, not its periods.                                       *)
(***************************************************************************)
\* Mutant of date_cols: text columns are taken for datetime columns.
date_cols_with_text(d) == select_dtypes(d, DatetimeDtypes \cup ObjectDtypes)

date_cols(d) == select_dtypes(d, DatetimeDtypes)

TimeSeriesResult(ws, raised, resampled) ==
    [widgets |-> ws, raised |-> raised, resampled |-> resampled]

time_series(d, selected_graph, w) ==
    LET dates == date_cols(d)
        metrics == select_dtypes(d, NumberDtypes)
        date_col == selectbox(w["date"], dates)
        metric_col == selectbox(w["ts_metric"], metrics)
        resample_freq == selectbox(w["freq"], Frequencies)
        w_date == [k \in {"date"} |-> render_selectbox(w["date"], dates)]
        w_metric == [k \in {"ts_metric"} |-> render_selectbox(w["ts_metric"], metrics)]
        w_freq == [k \in {"freq"} |-> render_selectbox(w["freq"], Frequencies)]
    IN IF Len(dates) = 0
       THEN TimeSeriesResult([k \in {} |-> Hidden], FALSE, NoResample)
       ELSE IF selected_graph \in {"Line Chart", "Histogram", "Box Plot"}
       THEN \* a second selectbox "Select metric:" over the same options:
            \* DuplicateWidgetID
            TimeSeriesResult(w_date, TRUE, NoResample)
       ELSE IF ~has_column(d, metric_col)
       THEN \* df.set_index(date_col)[None]: KeyError
            TimeSeriesResult(w_date @@ w_metric, TRUE, NoResample)
       ELSE TimeSeriesResult(w_date @@ w_metric @@ w_freq, FALSE,
                [shown |-> TRUE, date_col |-> date_col, metric_col |-> metric_col,
                 freq |-> resample_freq, rows |-> d.nrows])

(***************************************************************************)
(* One execution of the script: from the widget state w (the user's last   *)
(* choice applied) and the uploaded file, to everything it displays and    *)
(* the widget state it leaves.                                             *)
(***************************************************************************)
Unbound == "<unbound>"

LoadError == Msg("error", "Error loading file")
Success == Msg("success", "Successfully loaded dataset")

file_ids(files) == [i \in 1..Len(files) |-> files[i].id]

file_named(files, id) == files[CHOOSE i \in 1..Len(files) : files[i].id = id]

Outcome(w, path, d, status, msgs, chart, calls, summary, outliers, frequency, resampled) ==
    [widgets |-> w, file_path |-> path, df |-> d, status |-> status, messages |-> msgs,
     chart |-> chart, calls |-> calls, summary |-> summary, outliers |-> outliers,
     frequency |-> frequency, resampled |-> resampled]

\* The widgets as this execution leaves them: those it rendered, the others
\* forgotten.
rendered(ws) == [k \in WidgetKeys |-> IF k \in DOMAIN ws THEN ws[k] ELSE Hidden]

\* Lines 65-208, once df is bound: the success line, the chart, the advanced
\* analysis and the time series section.  The preview and df.describe()
\* (lines 71-77) only display df and are left out.
after_load(file, d, selected_graph, shown, viz, ana, ts) ==
    LET all == shown @@ viz.widgets @@ [k \in {"analysis"} |-> ana.widget]
        msgs == <<Success>> \o viz.messages
    IN IF ana.raised
       THEN Outcome(rendered(all), file.id, d, "exception", Append(msgs, Uncaught),
                    viz.chart, viz.calls, ana.summary, ana.outliers, ana.frequency,
                    NoResample)
       ELSE IF ts.raised
       THEN Outcome(rendered(all @@ ts.widgets), file.id, d, "exception",
                    Append(msgs, Uncaught), viz.chart, viz.calls, ana.summary,
                    ana.outliers, ana.frequency, NoResample)
       ELSE Outcome(rendered(all @@ ts.widgets), file.id, d, "done", msgs,
                    viz.chart, viz.calls, ana.summary, ana.outliers, ana.frequency,
                    ts.resampled)

rendered_so_far(w_local, w) ==
    w_local @@ [k \in {"graph"} |-> render_selectbox(w["graph"], GraphKinds)]

analysis_sections(file, d, w, shown, lib) ==
    LET selected_graph == selectbox(w["graph"], GraphKinds)
    IN CHOOSE o \in { after_load(file, d, selected_graph, shown, viz, ana, ts) :
                        viz \in {create_visualization(d, selected_graph, w, lib)},
                        ana \in {advanced_analysis(d, w["analysis"], lib)},
                        ts \in {time_series(d, selected_graph, w)} } : TRUE

script(files, upload, uploaded, w, lib) ==
    LET has_local == Len(files) > 0
        w_local == IF has_local
                   THEN [k \in {"local"} |-> render_selectbox(w["local"], file_ids(files))]
                   ELSE [k \in {} |-> Hidden]
        selected_file == selectbox(w["local"], file_ids(files))
        has_path == has_local \/ uploaded
        file == IF uploaded THEN upload ELSE file_named(files, selected_file)
        stopped(status, msgs) ==
            Outcome(rendered(w_local), IF has_path THEN file.id ELSE Unbound, NoDf, status,
                    msgs, NoChart, <<>>, NoSummary, NoOutliers, NoFrequency, NoResample)
    IN IF ~has_path THEN stopped("no_file", <<>>)
       ELSE IF load_raises(file) THEN stopped("load_error", <<LoadError>>)
       ELSE
       analysis_sections(file, load_data(file), w, rendered_so_far(w_local, w), lib)

(***************************************************************************)
(* State.  local_files and candidate are the environment of the session:   *)
(* the CSV files of DATA_DIR and the file the user has at hand to upload.  *)
(* uploaded is whether the uploader holds it.  The other variables are     *)
(* what the last execution of the script bound and displayed.              *)
(***************************************************************************)
VARIABLES local_files, candidate, uploaded, widgets, file_path, df, status, messages,
          chart, calls, summary, outliers, frequency, resampled

vars == << local_files, candidate, uploaded, widgets, file_path, df, status, messages,
           chart, calls, summary, outliers, frequency, resampled >>

\* The execution of the script that follows an interaction.
Execute(up, w) ==
    \E lib \in LibOutcomes :
      \E o \in {script(local_files, candidate, up, w, lib)} :
           /\ uploaded' = up
           /\ widgets' = o.widgets
           /\ file_path' = o.file_path
           /\ df' = o.df
           /\ status' = o.status
           /\ messages' = o.messages
           /\ chart' = o.chart
           /\ calls' = o.calls
           /\ summary' = o.summary
           /\ outliers' = o.outliers
           /\ frequency' = o.frequency
           /\ resampled' = o.resampled
           /\ UNCHANGED << local_files, candidate >>

\* Opening the page: the first execution, no widget touched yet.
Init ==
    /\ \/ local_files = LocalCatalog /\ candidate \in UploadCatalog
       \/ local_files = <<>> /\ candidate \in GenFiles
    /\ uploaded = FALSE
    /\ \E lib \in LibOutcomes :
        \E o \in {script(local_files, candidate, FALSE, NoWidgets, lib)} :
           /\ widgets = o.widgets
           /\ file_path = o.file_path
           /\ df = o.df
           /\ status = o.status
           /\ messages = o.messages
           /\ chart = o.chart
           /\ calls = o.calls
           /\ summary = o.summary
           /\ outliers = o.outliers
           /\ frequency = o.frequency
           /\ resampled = o.resampled

\* The user can pick value v in selectbox key: it is on the page, v is one of
\* its options and not the current one.
CanChoose(key, v) ==
    /\ widgets[key].shown
    /\ v \in Range(widgets[key].opts)
    /\ v # widgets[key].val

Chosen(key, v) == [widgets EXCEPT ![key].val = v]

Labels == {"cases", "region", "week", "state", "deaths", "epidemic", "rate", "x"}

SelectLocal ==
    \E v \in Range(file_ids(LocalCatalog)) :
        CanChoose("local", v) /\ Execute(uploaded, Chosen("local", v))

ChooseGraph ==
    \E v \in Range(GraphKinds) :
        CanChoose("graph", v) /\ Execute(uploaded, Chosen("graph", v))

ChooseCategory ==
    \E v \in Labels : CanChoose("category", v) /\ Execute(uploaded, Chosen("category", v))

ChooseMetric ==
    \E v \in Labels : CanChoose("metric", v) /\ Execute(uploaded, Chosen("metric", v))

ChooseX ==
    \E v \in Labels : CanChoose("x", v) /\ Execute(uploaded, Chosen("x", v))

ChooseY ==
    \E v \in Labels : CanChoose("y", v) /\ Execute(uploaded, Chosen("y", v))

ChooseAnalysis ==
    \E v \in Labels : CanChoose("analysis", v) /\ Execute(uploaded, Chosen("analysis", v))

\* The user drops the candidate file on the uploader, or removes it.
Upload == ~uploaded /\ Execute(TRUE, widgets)
RemoveUpload == uploaded /\ Execute(FALSE, widgets)

\* "Rerun" from the app menu.
Rerun == uploaded \in BOOLEAN /\ Execute(uploaded, widgets)

Next ==
    \/ SelectLocal
    \/ ChooseGraph
    \/ ChooseCategory
    \/ ChooseMetric
    \/ ChooseX
    \/ ChooseY
    \/ ChooseAnalysis
    \/ Upload
    \/ RemoveUpload
    \/ Rerun

Spec == Init /\ [][Next]_vars

(***************************************************************************)
(* Properties.                                                             *)
(***************************************************************************)
ColumnsOf(d) == {d.columns[i] : i \in 1..Len(d.columns)}

LabelsWithDtype(d, dtypes) == {c.name : c \in {x \in ColumnsOf(d) : x.dtype \in dtypes}}

\* The columns a chart selector or the time series section offers per class.
EligibleLabels(d, class) ==
    CASE class = "Numeric" -> Range(select_dtypes(d, NumberDtypes))
      [] class = "Categorical" -> Range(select_dtypes(d, ObjectDtypes))
      [] class = "Datetime" -> Range(date_cols(d))

TypeClasses == {"Numeric", "Categorical", "Datetime"}

ChartClasses(d, c) == {class \in TypeClasses : c.name \in EligibleLabels(d, class)}

\* The branch of the advanced analysis a column takes.
StatisticsClass(c) == IF is_numeric_dtype(c.dtype) THEN "Numeric" ELSE "Categorical"

\* C1: every column of the loaded table is in exactly one of the classes
\* Numeric, Categorical, Datetime for the chart selectors, and that class is
\* the one the statistics branch uses for it.
C1_ClassificationTotalExclusive ==
    df.bound =>
        \A c \in ColumnsOf(df) :
            /\ Cardinality(ChartClasses(df, c)) = 1
            /\ ChartClasses(df, c) = {StatisticsClass(c)}

\* The file the page currently designates: the upload if there is one, else
\* the local selection.
CurrentFile ==
    IF uploaded THEN candidate ELSE file_named(local_files, widgets["local"].val)

OffersExactly(key, labels) ==
    widgets[key].shown =>
        /\ Range(widgets[key].opts) = labels
        /\ widgets[key].val \in labels \cup {NoneLabel}
        /\ (widgets[key].val = NoneLabel) = (labels = {})

NothingDisplayed ==
    /\ ~df.bound /\ ~chart.shown /\ calls = <<>>
    /\ ~summary.shown /\ ~outliers.shown /\ ~frequency.shown /\ ~resampled.shown
    /\ \A k \in WidgetKeys \ {"local"} : ~widgets[k].shown

\* C2: whatever an execution offers, selects or displays is derived from the
\* table of the file currently designated, never from a table loaded before;
\* and after a failed load nothing of an earlier table is offered or displayed.
C2_NoStaleClassification ==
    /\ status \in {"no_file", "load_error"} => NothingDisplayed
    /\ status \in {"done", "exception"} =>
        /\ CurrentFile.ok
        /\ file_path = CurrentFile.id
        /\ df.bound
        /\ column_labels(df) = [i \in 1..Len(CurrentFile.cols) |-> CurrentFile.cols[i].name]
        /\ \A i \in 1..Len(df.columns) :
              /\ df.columns[i].vals = CurrentFile.cols[i].cells
              /\ df.nrows = Len(df.columns[i].vals)
        /\ OffersExactly("category", LabelsWithDtype(df, {"object"}))
        /\ OffersExactly("metric", LabelsWithDtype(df, {"int64", "float64"}))
        /\ OffersExactly("x", LabelsWithDtype(df, {"int64", "float64"}))
        /\ OffersExactly("y", LabelsWithDtype(df, {"int64", "float64"}))
        /\ OffersExactly("analysis", Range(column_labels(df)))
        /\ widgets["analysis"].shown
        /\ chart.shown /\ chart.kind \in {"Bar Chart", "Pie Chart"} =>
              /\ Range(chart.cols) \subseteq LabelsWithDtype(df, {"object"})
              /\ chart.cols = <<widgets["category"].val>>
        /\ chart.shown /\ chart.kind \in {"Line Chart", "Histogram", "Box Plot"} =>
              /\ Range(chart.cols) \subseteq LabelsWithDtype(df, {"int64", "float64"}) \cup {NoneLabel}
              /\ chart.cols = <<widgets["metric"].val>>
        /\ chart.shown /\ chart.kind = "Scatter Plot" =>
              chart.cols = <<widgets["x"].val, widgets["y"].val>>
        /\ chart.shown /\ chart.kind = "Heatmap" =>
              Range(chart.cols) = LabelsWithDtype(df, {"int64", "float64"})
        /\ summary.shown =>
              /\ summary.col = widgets["analysis"].val
              /\ summary.col \in LabelsWithDtype(df, {"int64", "float64", "bool"})
        /\ outliers.shown => outliers.col = summary.col /\ summary.shown
        /\ frequency.shown =>
              /\ frequency.col = widgets["analysis"].val
              /\ frequency.col \in LabelsWithDtype(df, {"object", "datetime64[ns]"})

\* A second table is on the page, with a column of its own chosen by the user
\* for the chart and for the analysis.
C2_Witness ==
    /\ status = "done" /\ file_path = "measles.csv"
    /\ chart.shown /\ chart.cols = <<"deaths">>
    /\ outliers.shown /\ outliers.col = "deaths"

\* C3: no execution that loaded a table ends on an uncaught exception: every
\* error of the chart, the statistics, the outlier detection and the resampling
\* is turned into a message and the execution runs to its end.
C3_ErrorsCaughtAtBoundary == df.bound => status = "done"

\* The type class a chart kind requires of its columns.
RequiredDtypes(kind) ==
    IF graph_types(kind) = "categorical" THEN {"object"} ELSE {"int64", "float64"}

SelectorKeys(kind) ==
    CASE graph_types(kind) = "categorical" -> {"category"}
      [] kind = "Scatter Plot" -> {"x", "y"}
      [] OTHER -> {"metric"}

\* C4: the selector of a chart kind offers exactly the columns of the kind's
\* type class, and when there is none the request stops there: no plotting
\* call is made, no chart is displayed and an error message is shown.
C4_EmptyEligibleListStopsRequest ==
    df.bound /\ widgets["graph"].val # "Heatmap" =>
        LET kind == widgets["graph"].val
            eligible == LabelsWithDtype(df, RequiredDtypes(kind))
        IN /\ \A k \in SelectorKeys(kind) :
                 widgets[k].shown /\ Range(widgets[k].opts) = eligible
           /\ eligible = {} =>
                 /\ calls = <<>>
                 /\ ~chart.shown
                 /\ VizError \in Range(messages)

\* C5: a Heatmap request on a table with fewer than 2 numeric columns computes
\* no correlation, displays no chart and warns the user; with 2 or more the
\* correlation of all numeric columns is computed and the chart displayed.
C5_HeatmapNeedsTwoNumericColumns ==
    df.bound /\ widgets["graph"].val = "Heatmap" =>
        LET numeric == LabelsWithDtype(df, {"int64", "float64"})
        IN IF Cardinality(numeric) < 2
           THEN /\ calls = <<>>
                /\ ~chart.shown
                /\ HeatmapWarning \in Range(messages)
           ELSE /\ \E i \in 1..Len(calls) :
                      calls[i].fn = "corr" /\ Range(calls[i].cols) = numeric
                /\ chart.shown /\ chart.kind = "Heatmap" /\ Range(chart.cols) = numeric
                /\ HeatmapWarning \notin Range(messages)

\* Heatmap on a table with exactly one numeric column.
C5_Witness ==
    /\ df.bound /\ widgets["graph"].val = "Heatmap"
    /\ Cardinality(LabelsWithDtype(df, {"int64", "float64"})) = 1
    /\ HeatmapWarning \in Range(messages)

\* The k-th smallest of the numbers xs, by counting.
OrderStatistic(xs, k) ==
    CHOOSE v \in Range(xs) :
        /\ Cardinality({i \in 1..Len(xs) : xs[i] < v}) < k
        /\ Cardinality({i \in 1..Len(xs) : xs[i] <= v}) >= k

\* Four times the quartile k/4 of xs (non-empty) by linear interpolation.
FourQuartile(xs, k) ==
    LET h == k * (Len(xs) - 1)
        j == h \div 4
        r == h % 4
        a == OrderStatistic(xs, j + 1)
        b == IF r = 0 THEN a ELSE OrderStatistic(xs, j + 2)
    IN (4 - r) * a + r * b

Equals(r, n, d) == ~r.nan /\ r.num * d = n * r.den

\* C6: the outlier report of a numeric column holds Q1 and Q3 by linear
\* interpolation, IQR = Q3 - Q1, and counts the rows strictly below
\* Q1 - 1.5 IQR or strictly above Q3 + 1.5 IQR; the fraction is that count
\* over the number of rows of the table.  For cases = [1,2,3,4,100]: Q1 = 2,
\* Q3 = 4, IQR = 2, fences -1 and 7, one outlier, fraction 0.20.
C6_OutlierReport ==
    outliers.shown =>
        LET vals == column(df, outliers.col).vals
            present == {i \in 1..Len(vals) : vals[i].k # "na"}
            xs == numbers(vals)
        IN /\ outliers.fraction = Rat(outliers.count, df.nrows)
           /\ df.nrows = Len(vals) /\ df.nrows > 0
           /\ Len(xs) = 0 => outliers.q1.nan /\ outliers.q3.nan /\ outliers.count = 0
           /\ Len(xs) > 0 =>
                LET Q1 == FourQuartile(xs, 1)
                    Q3 == FourQuartile(xs, 3)
                IN /\ Equals(outliers.q1, Q1, 4)
                   /\ Equals(outliers.q3, Q3, 4)
                   /\ Equals(outliers.iqr, Q3 - Q1, 4)
                   /\ Equals(outliers.lower, 2 * Q1 - 3 * (Q3 - Q1), 8)
                   /\ Equals(outliers.upper, 2 * Q3 + 3 * (Q3 - Q1), 8)
                   /\ outliers.count =
                        Cardinality({i \in present :
                            \/ 8 * vals[i].v < 2 * Q1 - 3 * (Q3 - Q1)
                            \/ 8 * vals[i].v > 2 * Q3 + 3 * (Q3 - Q1)})
           /\ file_path = "cases.csv" =>
                /\ Equals(outliers.q1, 2, 1) /\ Equals(outliers.q3, 4, 1)
                /\ Equals(outliers.iqr, 2, 1)
                /\ Equals(outliers.lower, -1, 1) /\ Equals(outliers.upper, 7, 1)
                /\ outliers.count = 1
                /\ Equals(outliers.fraction, 20, 100)

\* The report for cases = [1,2,3,4,100].
C6_Witness ==
    /\ outliers.shown /\ file_path = "cases.csv" /\ outliers.col = "cases"
    /\ column(df, "cases").vals = <<Num(1), Num(2), Num(3), Num(4), Num(100)>>
    /\ outliers.count = 1

\* C7: the analysis of a numeric column without any value shows no statistics
\* and no outlier report but an error, and no outlier report is produced for
\* a table without rows.
C7_EmptyColumnError ==
    /\ df.bound /\ widgets["analysis"].shown /\ has_column(df, widgets["analysis"].val) =>
        LET c == column(df, widgets["analysis"].val)
        IN (is_numeric_dtype(c.dtype) /\ \A i \in 1..Len(c.vals) : c.vals[i].k = "na") =>
              /\ ~summary.shown
              /\ ~outliers.shown
              /\ \E i \in 1..Len(messages) : messages[i].level \in {"error", "exception"}
    /\ df.bound /\ df.nrows = 0 => ~outliers.shown

\* What the classification rule gives for a column with at least one value.
RuleClass(vals) ==
    IF \A i \in 1..Len(vals) : vals[i].k \in {"date", "na"} THEN "Datetime"
    ELSE IF \A i \in 1..Len(vals) : vals[i].k \in {"num", "na"} THEN "Numeric"
    ELSE "Categorical"

\* C8: a column whose values all parse as dates is offered as Datetime (and
\* the time series section is shown), one whose values all parse as numbers
\* as Numeric, any other as Categorical.
C8_TypeClassifierRule ==
    df.bound =>
        \A c \in ColumnsOf(df) :
            (\E i \in 1..Len(c.vals) : c.vals[i].k # "na") =>
                /\ c.name \in EligibleLabels(df, RuleClass(c.vals))
                /\ RuleClass(c.vals) = "Datetime" /\ status = "done" => widgets["date"].shown

\* C9: the frequency table of a categorical column has one entry per distinct
\* non-missing value, counting its rows; the counts sum to the number of
\* non-missing rows; the entries are in descending order of count.
C9_FrequencyTable ==
    frequency.shown =>
        LET vals == column(df, frequency.col).vals
            present == {i \in 1..Len(vals) : vals[i].k # "na"}
            t == frequency.table
        IN /\ sum([i \in 1..Len(t) |-> t[i].count]) = Cardinality(present)
           /\ {t[i].value : i \in 1..Len(t)} = {vals[i] : i \in present}
           /\ \A i, j \in 1..Len(t) : i # j => t[i].value # t[j].value
           /\ \A i \in 1..Len(t) :
                 t[i].count = Cardinality({j \in present : vals[j] = t[i].value})
           /\ \A i \in 1..Len(t) - 1 : t[i].count >= t[i + 1].count

\* A frequency table of a column with a missing value and unequal counts, the
\* most frequent value not being the first in the column.
C9_Witness ==
    /\ frequency.shown
    /\ \E i \in 1..Len(column(df, frequency.col).vals) :
          column(df, frequency.col).vals[i].k = "na"
    /\ Len(frequency.table) >= 2
    /\ frequency.table[1].count > frequency.table[2].count
    /\ frequency.table[1].value # notna(column(df, frequency.col).vals)[1]

\* C10: the time series section (its three selectors and the resampled
\* series) appears only for a table with a datetime column; the date column
\* is then one of the datetime columns and the metric one of the numeric
\* columns.  Without a datetime column nothing of it appears.
C10_ResampleOnlyWithDatetime ==
    LET datetimes == LabelsWithDtype(df, {"datetime64[ns]"})
        appears == \/ resampled.shown
                   \/ \E k \in {"date", "ts_metric", "freq"} : widgets[k].shown
    IN /\ appears => datetimes # {}
       /\ resampled.shown =>
             /\ resampled.date_col \in datetimes
             /\ resampled.metric_col \in LabelsWithDtype(df, {"int64", "float64"})
       /\ datetimes = {} => ~appears

\* An execution that ran to its end on a table with a column of date strings
\* and numeric columns: no time series section.
C10_Witness ==
    /\ status = "done" /\ df.bound
    /\ \E c \in ColumnsOf(df) : c.dtype = "object" /\ RuleClass(c.vals) = "Datetime"
                                  /\ Len(c.vals) > 0
    /\ LabelsWithDtype(df, {"int64", "float64"}) # {}
    /\ ~resampled.shown

====
